---- MODULE Spec2Model ----
(***************************************************************************)
(* A model of nodee's ChoreKeeper: the once-a-second loop of               *)
(* ChoreKeeper::start(), the eight-slot thrashing window, the /proc scan   *)
(* that fills in the managed processes' memory and page-fault figures, and *)
(* the five policies that pick the process to kill.                        *)
(***************************************************************************)
EXTENDS Integers, Sequences, FiniteSets, TLC

VARIABLES
    pc,         \* where start() is: "start", "inert", "scan", "detect",
                \* "select", "backoff", "exited", "aborted", "hung"
    thrashing,  \* bool thrashing[8], slot 0 the most recent
    procs,      \* init.processes(): the list of managed processes
    killed,     \* pid sent signal 9 in the current cycle, 0 if none
    hist,       \* history: the verdicts detectThrashing() has stored, newest
                \* first, at most WindowSize of them, each with the pid (or 0)
                \* that was killed in the verdict's cycle
    recording,  \* whether this run keeps hist
    picked,     \* what each of the five policies returned, when the run
                \* is one that tries the policies on a process list
    dir,        \* scanProcesses() on its own: what parseProcStat() made of
                \* each /proc/<pid>/stat the scan read
    view,       \* scanProcesses() on its own: the map observed when the
                \* scan is over
    sample,     \* detectThrashing() on its own: the /proc/vmstat it read
                \* and the verdict it stored
    line,       \* parseProcStat() on its own: the line it is given
    parsed,     \* parseProcStat() on its own: how it ended
    files,      \* which of /proc/1/stat and /proc/vmstat exist when start()
                \* is called
    steps       \* the steps the current cycle has taken so far, in the order
                \* start() took them, each with the managed processes it
                \* wrote or read (none for the steps that touch none);
                \* kept by the runs that keep hist

(* The variables of the runs that try one function on its own; the loop    *)
(* of start() leaves them alone.                                           *)
locals == <<dir, view, sample, line, parsed>>

vars ==
    <<pc, thrashing, procs, killed, hist, recording, picked, locals, files,
      steps>>

----------------------------------------------------------------------------
(* Bounds of the model. *)

\* largest rss (in pages) of one process
MaxRss == 2
\* largest page-fault count the policies are tried on
MaxFlt == 2
\* longest process list the policies are tried on
MaxProcs == 3

(* Program constants. *)

\* the size of the thrashing[] array
WindowSize == 8
\* rule 1 of oneBitOfThrashing()
FreePagesLimit == 5000
\* rule 2 of oneBitOfThrashing()
MajFaultLimit == 3
\* rule 3 of oneBitOfThrashing()
PgOutLimit == 3

\* nodee's own pid, the second argument of scanProcesses()
Me == 2

\* a null Process pointer, as an index into the process list
Null == 0

----------------------------------------------------------------------------
(* The managed processes.  A Process is its pid, the three figures of its  *)
(* ServerSpec and the two figures scanProcesses() writes.                  *)

Process(pid, typical, peak, value) ==
    [pid |-> pid, expectedTypicalMemory |-> typical,
     expectedPeakMemory |-> peak, value |-> value,
     currentRss |-> 0, pageFaults |-> 0]

setCurrentRss(p, v) == [p EXCEPT !.currentRss = v]
setPageFaults(p, v) == [p EXCEPT !.pageFaults = v]
recentPageFaults(p) == p.pageFaults

----------------------------------------------------------------------------
(* The five policies.  Each walks the process list front to back, as the   *)
(* code's iterator does, and returns an index into the list, Null for a    *)
(* null pointer.                                                           *)

overPeak_typical(p) == p.currentRss - p.expectedTypicalMemory
overPeak(p) == p.currentRss - p.expectedPeakMemory

RECURSIVE furthestOverPeakLoop(_, _, _)
furthestOverPeakLoop(pl, m, p) ==
    IF m > Len(pl) THEN p
    ELSE LET over == overPeak(pl[m])
         IN  IF over > 0 /\ (p = Null \/ over > overPeak(pl[p]))
             THEN furthestOverPeakLoop(pl, m + 1, m)
             ELSE furthestOverPeakLoop(pl, m + 1, p)

furthestOverPeak(pl) == furthestOverPeakLoop(pl, 1, Null)

overExpected_peak(p) == p.currentRss - p.expectedPeakMemory
overExpected(p) == p.currentRss - p.expectedTypicalMemory

RECURSIVE furthestOverExpectedLoop(_, _, _)
furthestOverExpectedLoop(pl, m, p) ==
    IF m > Len(pl) THEN p
    ELSE LET over == overExpected(pl[m])
         IN  IF over > 0 /\ (p = Null \/ over > overExpected(pl[p]))
             THEN furthestOverExpectedLoop(pl, m + 1, m)
             ELSE furthestOverExpectedLoop(pl, m + 1, p)

furthestOverExpected(pl) == furthestOverExpectedLoop(pl, 1, Null)

lessValuable_swapped(p, q) == p.value > q.value
lessValuable(p, q) == p.value < q.value

RECURSIVE leastValuableLoop(_, _, _, _)
leastValuableLoop(pl, m, max, min) ==
    IF m > Len(pl) THEN <<max, min>>
    ELSE LET max2 == IF max = Null \/ lessValuable(pl[max], pl[m])
                     THEN m ELSE max
             min2 == IF min = Null \/ lessValuable(pl[m], pl[min])
                     THEN m ELSE min
         IN  leastValuableLoop(pl, m + 1, max2, min2)

leastValuable(pl) ==
    LET r == leastValuableLoop(pl, 1, Null, Null)
        max == r[1]
        min == r[2]
    IN  IF min # Null /\ max # Null /\ pl[min].value >= pl[max].value
        THEN Null ELSE min

RECURSIVE thrashingMostLoop(_, _, _, _)
thrashingMostLoop(pl, m, worst, least) ==
    IF m > Len(pl) THEN <<worst, least>>
    ELSE LET worst2 == IF worst = Null
                          \/ recentPageFaults(pl[m]) > recentPageFaults(pl[least])
                       THEN m ELSE worst
             least2 == IF least = Null
                          \/ recentPageFaults(pl[m]) < recentPageFaults(pl[least])
                       THEN m ELSE least
         IN  thrashingMostLoop(pl, m + 1, worst2, least2)

thrashingMost(pl) ==
    LET r == thrashingMostLoop(pl, 1, Null, Null)
        worst == r[1]
        least == r[2]
    IN  IF worst # Null /\ least # Null
           /\ recentPageFaults(pl[least]) >= recentPageFaults(pl[worst])
        THEN Null ELSE worst

bigger_swapped(p, q) == p.currentRss < q.currentRss
bigger(p, q) == p.currentRss > q.currentRss

RECURSIVE biggestLoop(_, _, _)
biggestLoop(pl, m, p) ==
    IF m > Len(pl) THEN p
    ELSE IF p = Null \/ bigger(pl[m], pl[p])
         THEN biggestLoop(pl, m + 1, m)
         ELSE biggestLoop(pl, m + 1, p)

biggest(pl) == biggestLoop(pl, 1, Null)

(* The order of the class documentation, leastValuable() before            *)
(* thrashingMost(), which is not the order of start().                     *)
jesus_classDoc(pl) ==
    IF furthestOverPeak(pl) # Null THEN furthestOverPeak(pl)
    ELSE IF furthestOverExpected(pl) # Null THEN furthestOverExpected(pl)
    ELSE IF leastValuable(pl) # Null THEN leastValuable(pl)
    ELSE IF thrashingMost(pl) # Null THEN thrashingMost(pl)
    ELSE biggest(pl)

(* The victim start() settles on: the first policy, in the order of the    *)
(* code, that returns a process.                                           *)
jesus(pl) ==
    IF furthestOverPeak(pl) # Null THEN furthestOverPeak(pl)
    ELSE IF furthestOverExpected(pl) # Null THEN furthestOverExpected(pl)
    ELSE IF thrashingMost(pl) # Null THEN thrashingMost(pl)
    ELSE IF leastValuable(pl) # Null THEN leastValuable(pl)
    ELSE biggest(pl)


----------------------------------------------------------------------------
(* The thrashing window.                                                   *)

Slots == 0 .. (WindowSize - 1)

(* The constructor clears thrashing[7] down to thrashing[1]; thrashing[0]  *)
(* is not assigned, so it holds whatever the memory held: w0.              *)
ChoreKeeper(w0) == [n \in Slots |-> IF n > 0 THEN FALSE ELSE w0]

isThrashing_seven(w) == \A n \in Slots \ {0} : w[n]
isThrashing(w) == \A n \in Slots : w[n]

oneBitOfThrashing_atLimit(nr_free_pages, pgmajfault, pgpgout) ==
    IF nr_free_pages >= FreePagesLimit THEN FALSE
    ELSE IF pgmajfault > MajFaultLimit THEN TRUE
    ELSE IF pgpgout < PgOutLimit THEN FALSE
    ELSE TRUE
oneBitOfThrashing(nr_free_pages, pgmajfault, pgpgout) ==
    IF nr_free_pages > FreePagesLimit THEN FALSE
    ELSE IF pgmajfault > MajFaultLimit THEN TRUE
    ELSE IF pgpgout < PgOutLimit THEN FALSE
    ELSE TRUE

(* /proc/vmstat is a sequence of lines, each a name and a second token     *)
(* that is an integer or not.  readProcVmstat() casts the second token of  *)
(* every line, whatever its name, and the cast throws on a non-integer.    *)
Line(n, v) == [n |-> n, isInt |-> TRUE, v |-> v]
BadLine(n) == [n |-> n, isInt |-> FALSE, v |-> 0]

RECURSIVE readProcVmstatLoop(_, _, _)
readProcVmstatLoop(file, k, acc) ==
    IF k > Len(file) THEN acc
    ELSE IF ~file[k].isInt THEN [acc EXCEPT !.threw = TRUE]
    ELSE LET n == file[k].n
             v == file[k].v
             a1 == IF n = "nr_free_pages" THEN [acc EXCEPT !.nr_free_pages = v]
                   ELSE acc
             a2 == IF n = "pgmajfault" THEN [a1 EXCEPT !.pgmajfault = v] ELSE a1
             a3 == IF n = "pgpgout" THEN [a2 EXCEPT !.pgpgout = v] ELSE a2
         IN  readProcVmstatLoop(file, k + 1, a3)

readProcVmstat(file) ==
    readProcVmstatLoop(file, 1,
        [threw |-> FALSE, nr_free_pages |-> 0, pgmajfault |-> 0, pgpgout |-> 0])

(* The shift of detectThrashing(): thrashing[n] = thrashing[n-1] for n = 7 *)
(* down to 1, then the fresh verdict in slot 0.                            *)
shift_stuck(w, verdict) ==
    [n \in Slots |-> IF n > 1 THEN w[n - 1] ELSE IF n = 1 THEN w[1] ELSE verdict]
shift(w, verdict) == [n \in Slots |-> IF n > 0 THEN w[n - 1] ELSE verdict]

(* detectThrashing(): the vmstat read comes first, and if it throws the    *)
(* window is not touched.                                                  *)
detectThrashing_shiftFirst(w, file) ==
    LET s == readProcVmstat(file)
    IN  IF s.threw
        THEN [threw |-> TRUE, thrashing |-> shift(w, w[0]), verdict |-> FALSE]
        ELSE LET v == oneBitOfThrashing(s.nr_free_pages, s.pgmajfault, s.pgpgout)
             IN  [threw |-> FALSE, thrashing |-> shift(w, v), verdict |-> v]
detectThrashing(w, file) ==
    LET s == readProcVmstat(file)
    IN  IF s.threw THEN [threw |-> TRUE, thrashing |-> w, verdict |-> FALSE]
        ELSE LET v == oneBitOfThrashing(s.nr_free_pages, s.pgmajfault, s.pgpgout)
             IN  [threw |-> FALSE, thrashing |-> shift(w, v), verdict |-> v]

(* What start() does to the window once it has sent the signal.            *)
afterKill_keep(w) == w
afterKill(w) == [w EXCEPT ![0] = FALSE]

----------------------------------------------------------------------------
(* scanProcesses().  The directory scan yields, per /proc/<pid>/stat, what *)
(* parseProcStat() made of it: a filled-in RunningProcess ("ok"), a        *)
(* default-constructed one because the tokens ran out ("short"), or a      *)
(* bad_lexical_cast ("bad").                                               *)

RunningProcess(pid, ppid, majflt, rss) ==
    [pid |-> pid, ppid |-> ppid, majflt |-> majflt, rss |-> rss]

RunningProcess0 == RunningProcess(0, 0, 0, 0)

Ok(r) == [kind |-> "ok", r |-> r]
Short == [kind |-> "short", r |-> RunningProcess0]
Bad == [kind |-> "bad", r |-> RunningProcess0]

(* std::map<int,RunningProcess>: a function on the keys present.           *)
EmptyMap == << >>
Put(obs, k, r) == (k :> r) @@ obs
(* observed[k] inserts a default-constructed entry when k is absent.       *)
Touch(obs, k) == IF k \in DOMAIN obs THEN obs ELSE Put(obs, k, RunningProcess0)

(* observed[r.pid] = r inside the try, nothing in the catch.               *)
RECURSIVE observe(_, _, _)
observe(entries, k, obs) ==
    IF k > Len(entries) THEN obs
    ELSE IF entries[k].kind = "bad" THEN observe(entries, k + 1, obs)
    ELSE observe(entries, k + 1, Put(obs, entries[k].r.pid, entries[k].r))

(* The map's iterator: keys in ascending order, entries inserted during    *)
(* the walk included when their key is still ahead.                        *)
End == -1
Begin(obs) ==
    IF DOMAIN obs = {} THEN End
    ELSE CHOOSE k \in DOMAIN obs : \A x \in DOMAIN obs : k <= x
Next_(obs, i) ==
    LET ahead == {x \in DOMAIN obs : x > i}
    IN  IF ahead = {} THEN End
        ELSE CHOOSE k \in ahead : \A x \in ahead : k <= x

(* while ( mother && observed[mother].ppid && observed[mother].ppid != me )*)
(*     mother = observed[mother].ppid;                                     *)
(* A walk that takes more steps than the map has keys is in a ppid cycle   *)
(* and never leaves it: halts is FALSE.                                    *)
RECURSIVE motherWalk(_, _, _, _)
motherWalk(obs, mother, me, fuel) ==
    IF mother = 0 THEN [halts |-> TRUE, obs |-> obs, mother |-> mother]
    ELSE LET o1 == Touch(obs, mother)
             pp == o1[mother].ppid
         IN  IF pp # 0 /\ pp # me
             THEN IF fuel = 0
                  THEN [halts |-> FALSE, obs |-> o1, mother |-> mother]
                  ELSE motherWalk(o1, pp, me, fuel - 1)
             ELSE [halts |-> TRUE, obs |-> o1, mother |-> mother]

(* if ( observed[mother].pid != i->second.pid ) {                          *)
(*     observed[mother].rss += i->second.rss;                              *)
(*     observed[mother].majflt += i->second.majflt; }                      *)
attribute_always(obs, mother, i) ==
    [obs EXCEPT ![mother] = [@ EXCEPT !.rss = @ + obs[i].rss,
                                      !.majflt = @ + obs[i].majflt]]
attribute(obs, mother, i) ==
    IF obs[mother].pid # obs[i].pid
    THEN [obs EXCEPT ![mother] = [@ EXCEPT !.rss = @ + obs[i].rss,
                                           !.majflt = @ + obs[i].majflt]]
    ELSE obs

RECURSIVE rollup(_, _, _)
rollupNext(obs, i, me) == rollup(obs, Next_(obs, i), me)
rollupStep(w, i, me) ==
    IF ~w.halts THEN [halts |-> FALSE, obs |-> w.obs]
    ELSE rollupNext(attribute(Touch(w.obs, w.mother), w.mother, i), i, me)
rollup(obs, i, me) ==
    IF i = End THEN [halts |-> TRUE, obs |-> obs]
    ELSE rollupStep(motherWalk(obs, obs[i].pid, me, Cardinality(DOMAIN obs) + 1),
                    i, me)

(* setCurrentRss( observed[pid].rss ), setPageFaults( observed[pid].majflt )*)
writeback(pl, obs) ==
    [m \in 1 .. Len(pl) |->
        LET o == Touch(obs, pl[m].pid)
        IN  setPageFaults(setCurrentRss(pl[m], o[pl[m].pid].rss),
                          o[pl[m].pid].majflt)]

scanProcesses(pl, entries, me) ==
    LET observed == observe(entries, 1, EmptyMap)
        r == rollup(observed, Begin(observed), me)
    IN  IF r.halts
        THEN [halts |-> TRUE, procs |-> writeback(pl, r.obs), obs |-> r.obs]
        ELSE [halts |-> FALSE, procs |-> pl, obs |-> r.obs]


----------------------------------------------------------------------------
(* parseProcStat().  A line is a sequence of characters, a token a         *)
(* non-empty sequence of characters.                                       *)

\* the largest value of an int
IntMax == 2147483647

DigitChars == << "0", "1", "2", "3", "4", "5", "6", "7", "8", "9" >>
isdigit(c) == \E d \in 1 .. 10 : DigitChars[d] = c
digit(c) == (CHOOSE d \in 1 .. 10 : DigitChars[d] = c) - 1
isspace(c) == c = " "
ispunct(c) == c \in {"(", ")", "\\", "-"}

(* while ( i < line.length() && line[i] != '(' ) i++;                      *)
RECURSIVE findParen(_, _)
findParen(l, i) ==
    IF i <= Len(l) /\ l[i] # "(" THEN findParen(l, i + 1) ELSE i

(* while ( i < line.length() && line[i] != ')' ) {                         *)
(*     if ( line[i] == '\\' ) line[i++] = '0';                             *)
(*     line[i++] = '0'; }                                                  *)
(* No line read here ends in a backslash, so no write falls outside the    *)
(* string.                                                                 *)
RECURSIVE zeroName(_, _)
zeroName(l, i) ==
    IF i <= Len(l) /\ l[i] # ")"
    THEN IF l[i] = "\\"
         THEN zeroName([l EXCEPT ![i] = "0", ![i + 1] = "0"], i + 2)
         ELSE zeroName([l EXCEPT ![i] = "0"], i + 1)
    ELSE [line |-> l, i |-> i]

(* if ( line[i] == ')' ) line[i] = '0';                                    *)
zeroParen(z) ==
    IF z.i <= Len(z.line) /\ z.line[z.i] = ")"
    THEN [z.line EXCEPT ![z.i] = "0"]
    ELSE z.line

neutralise(l) == zeroParen(zeroName(l, findParen(l, 1)))

(* boost::tokenizer<> with its default char_delimiters_separator: white    *)
(* space and punctuation separate the tokens and are dropped.              *)
isdelim(c) == isspace(c) \/ ispunct(c)
tokenStarts(l) ==
    {i \in 1 .. Len(l) : ~isdelim(l[i]) /\ (i = 1 \/ isdelim(l[i - 1]))}
tokenEnd(l, i) ==
    CHOOSE j \in i .. Len(l) :
        /\ \A x \in i .. j : ~isdelim(l[x])
        /\ (j = Len(l) \/ isdelim(l[j + 1]))
tokenizer(l) ==
    [k \in 1 .. Cardinality(tokenStarts(l)) |->
        LET i == CHOOSE x \in tokenStarts(l) :
                     Cardinality({y \in tokenStarts(l) : y <= x}) = k
        IN  SubSeq(l, i, tokenEnd(l, i))]

(* boost::lexical_cast<int>: every character a digit and the value within  *)
(* an int, or else bad_lexical_cast.                                       *)
BadCast == -1
RECURSIVE lexical_castLoop(_, _, _)
lexical_castLoop(tok, k, acc) ==
    IF k > Len(tok) THEN acc
    ELSE IF ~isdigit(tok[k]) THEN BadCast
    ELSE IF acc > (IntMax - digit(tok[k])) \div 10 THEN BadCast
    ELSE lexical_castLoop(tok, k + 1, acc * 10 + digit(tok[k]))
lexical_cast(tok) == lexical_castLoop(tok, 1, 0)

(* r.majflt += ... on an int: past IntMax the sum comes out 2^32 lower.    *)
addInt(a, b) ==
    IF a > IntMax - b THEN (a - IntMax - 1) + (b - IntMax - 1) ELSE a + b

(* ++t on an iterator that is already at the end breaks the precondition   *)
(* of the token iterator: a build with assertions aborts, a build without  *)
(* leaves the iterator at the end, and the next test returns               *)
(* RunningProcess().                                                       *)
Abort == [kind |-> "abort", r |-> RunningProcess0]
PastEnd == {Short, Abort}

(* What parseProcStat( line ) may come to. The pid is the 1st token, the   *)
(* ppid the 4th, majflt and cmajflt the 12th and 13th, rss the 24th.       *)
parseProcStat(l) ==
    LET toks == tokenizer(neutralise(l))
        n == Len(toks)
    IN  IF n = 0 THEN {Short}
        ELSE IF lexical_cast(toks[1]) = BadCast THEN {Bad}
        ELSE IF n < 3 THEN PastEnd
        ELSE IF n = 3 THEN {Short}
        ELSE IF lexical_cast(toks[4]) = BadCast THEN {Bad}
        ELSE IF n < 11 THEN PastEnd
        ELSE IF n = 11 THEN {Short}
        ELSE IF lexical_cast(toks[12]) = BadCast THEN {Bad}
        ELSE IF n = 12 THEN {Short}
        ELSE IF lexical_cast(toks[13]) = BadCast THEN {Bad}
        ELSE IF n < 23 THEN PastEnd
        ELSE IF n = 23 THEN {Short}
        ELSE IF lexical_cast(toks[24]) = BadCast THEN {Bad}
        ELSE {Ok(RunningProcess(lexical_cast(toks[1]), lexical_cast(toks[4]),
                                addInt(lexical_cast(toks[12]),
                                       lexical_cast(toks[13])),
                                lexical_cast(toks[24])))}

----------------------------------------------------------------------------
(* The lines parseProcStat() is tried on: a /proc/<pid>/stat line that is  *)
(* well formed, cut short, or has a field that is no number.               *)

(* A number as the kernel prints it.                                       *)
RECURSIVE Num(_)
Num(n) ==
    IF n < 10 THEN << DigitChars[n + 1] >>
    ELSE Num(n \div 10) \o << DigitChars[(n % 10) + 1] >>
(* IntMax + 1, which is no int.                                            *)
TwoTo31 == << "2", "1", "4", "7", "4", "8", "3", "6", "4", "8" >>

(* The sum of two printed numbers, digit by digit from the right.          *)
DigitAt(x, k) == IF k <= Len(x) THEN digit(x[Len(x) + 1 - k]) ELSE 0
RECURSIVE PlusLoop(_, _, _, _, _)
PlusLoop(x, y, k, carry, acc) ==
    IF k > Len(x) /\ k > Len(y)
    THEN IF carry = 0 THEN acc ELSE << DigitChars[carry + 1] >> \o acc
    ELSE LET d == DigitAt(x, k) + DigitAt(y, k) + carry
         IN  PlusLoop(x, y, k + 1, d \div 10,
                      << DigitChars[(d % 10) + 1] >> \o acc)
Plus(x, y) == PlusLoop(x, y, 1, 0, << >>)

(* The fields of a stat line, in the kernel's order: pid, (comm), state,   *)
(* ppid, pgrp, session, tty_nr, tpgid, flags, minflt, cminflt, majflt,     *)
(* cmajflt, utime, stime, cutime, cstime, priority, nice, num_threads,     *)
(* itrealvalue, starttime, vsize, rss, rsslim.                             *)
Fields(t) ==
    << t.pid, << "(" >> \o t.name \o << ")" >>, << "S" >>, t.ppid,
       Num(12), Num(12), Num(0), << "-", "1" >>, Num(4194560), Num(100),
       Num(0), t.majflt, t.cmajflt, Num(3), Num(1), Num(0), Num(0),
       Num(20), Num(0), Num(1), Num(0), Num(5000), Num(8192), t.rss,
       Num(4096) >>

RECURSIVE Join(_, _)
Join(fields, k) ==
    IF k = 0 THEN << >>
    ELSE IF k = 1 THEN fields[1]
    ELSE Join(fields, k - 1) \o << " " >> \o fields[k]

StatLine(t) == Join(Fields(t), 25)

(* Executable names: letters, a space, an escaped right parenthesis.       *)
Names ==
    { << "f", "o", "o" >>, << "f", " ", "o" >>, << "f", "\\", ")", "o" >>,
      << "\\", ")", " ", "o" >> }

Tuples ==
    [pid : {Num(1), Num(12)}, name : Names, ppid : {Num(0), Num(7)},
     majflt : {Num(0), Num(1), Num(IntMax), TwoTo31},
     cmajflt : {Num(0), Num(1)}, rss : {Num(0), Num(MaxRss)}]

Tuple0 ==
    [pid |-> Num(12), name |-> << "f", "o", "o" >>, ppid |-> Num(7),
     majflt |-> Num(1), cmajflt |-> Num(1), rss |-> Num(MaxRss)]

(* A line that ends after its first k fields; k = 0 is the empty line the  *)
(* scan gets from a stat file it could not open.                           *)
Truncated == {Join(Fields(Tuple0), k) : k \in 0 .. 24}

(* A line one of whose numbers is the letter x.                            *)
Garbled ==
    {StatLine([Tuple0 EXCEPT ![f] = << "x" >>]) :
        f \in {"pid", "ppid", "majflt", "cmajflt", "rss"}}

(* 12 (foo ) bar) S 7 ...                                                  *)
EmbeddedParen ==
    StatLine([Tuple0 EXCEPT
                 !.name = << "f", "o", "o", " ", ")", " ", "b", "a", "r" >>])

StatLines ==
    {StatLine(t) : t \in Tuples} \cup Truncated \cup Garbled
        \cup {EmbeddedParen}

----------------------------------------------------------------------------
(* What the loop is run against.                                           *)

(* The process lists init.processes() may hold, as Process(pid, typical,   *)
(* peak, value): no service or two services of different value; no service *)
(* or two services of the same value; and, for the runs that keep the      *)
(* history of the window, no service or a single one.                      *)
Registries ==
    { << >>, << Process(3, 0, 2, 2), Process(4, 0, 1, 1) >> }

PeerRegistries ==
    { << >>, << Process(3, 1, 2, 5), Process(4, 1, 2, 5) >> }

WindowRegistries ==
    { << >>, << Process(3, 1, 2, 1) >> }

(* The /proc a cycle finds: pid 1, nodee itself, and either nothing more   *)
(* (the managed processes are gone), or for each managed process a stat    *)
(* record that names nodee as its parent, or one more stat file whose line *)
(* is cut short.                                                           *)
Samples == [rss : 0 .. MaxRss, majflt : 0 .. 1]

RECURSIVE statsOf(_, _, _)
statsOf(pl, samp, m) ==
    IF m > Len(pl) THEN << >>
    ELSE << Ok(RunningProcess(pl[m].pid, Me, samp[m].majflt, samp[m].rss)) >>
         \o statsOf(pl, samp, m + 1)

Others == << Ok(RunningProcess(1, 0, 0, 1)), Ok(RunningProcess(Me, 1, 0, 1)) >>

Dir(pl, samp) == Others \o statsOf(pl, samp, 1)

(* A stat line that ends after its second field: 12 (foo)                 *)
CutShort == Join(Fields(Tuple0), 2)

(* The /proc/vmstat a cycle finds: no counter at all; free pages above the *)
(* limit; few free pages with page-ins, with page-outs only, with neither; *)
(* or a file with a value that is no integer.                              *)
VmstatFiles ==
    { << >>,
      << Line("nr_free_pages", FreePagesLimit + 1),
         Line("pgmajfault", MajFaultLimit + 1), Line("pgpgout", PgOutLimit) >>,
      << Line("nr_free_pages", FreePagesLimit),
         Line("pgmajfault", MajFaultLimit + 1), Line("pgpgout", 0) >>,
      << Line("nr_free_pages", FreePagesLimit),
         Line("pgmajfault", MajFaultLimit), Line("pgpgout", PgOutLimit) >>,
      << Line("nr_free_pages", FreePagesLimit),
         Line("pgmajfault", MajFaultLimit), Line("pgpgout", PgOutLimit - 1) >>,
      << Line("nr_free_pages", 0), BadLine("pgfree") >> }

----------------------------------------------------------------------------
(* The loop of ChoreKeeper::start().                                       *)

NoLocals ==
    /\ dir = << >>
    /\ view = << >>
    /\ sample = << >>
    /\ line = << >>
    /\ parsed = << >>

NoPick == [furthestOverPeak |-> Null, furthestOverExpected |-> Null,
           thrashingMost |-> Null, leastValuable |-> Null, biggest |-> Null]

AllFiles == [stat1 |-> TRUE, vmstat |-> TRUE]

Construct ==
    /\ pc = "start"
    /\ files \in [stat1 : BOOLEAN, vmstat : BOOLEAN]
    /\ steps = << >>
    /\ \E w0 \in BOOLEAN : thrashing = ChoreKeeper(w0)
    /\ killed = 0
    /\ hist = << >>
    /\ picked = NoPick
    /\ NoLocals

Init ==
    /\ Construct
    /\ procs \in Registries
    /\ recording = FALSE

InitPeers ==
    /\ Construct
    /\ procs \in PeerRegistries
    /\ recording = FALSE

InitWindow ==
    /\ Construct
    /\ procs \in WindowRegistries
    /\ recording = TRUE

(* if ( !valid() ) ... : valid() is whether /proc/1/stat and /proc/vmstat  *)
(* exist.                                                                  *)
valid_either(stat1, vmstat) == stat1 \/ vmstat
valid(stat1, vmstat) == stat1 /\ vmstat

Start ==
    /\ pc = "start"
    /\ pc' = IF valid(files.stat1, files.vmstat) THEN "scan" ELSE "inert"
    /\ UNCHANGED <<thrashing, procs, killed, hist, recording, picked, locals,
                   files, steps>>

(* while( true ) ::sleep( 31415926 );                                      *)
Inert ==
    /\ pc = "inert"
    /\ UNCHANGED vars

(* The steps of a cycle, as the runs that keep hist log them: "stat" is    *)
(* the reading and parsing of the /proc/<pid>/stat files, "rollup" the     *)
(* ppid walks, "writeback" the setCurrentRss/setPageFaults calls, "vmstat" *)
(* the reading of /proc/vmstat, "shift" the shift of the window with the   *)
(* new verdict, "select" the policies, "kill" the signal.                  *)
Log(l, names, pl) ==
    IF recording
    THEN l \o [k \in 1 .. Len(names) |-> [step |-> names[k], procs |-> pl]]
    ELSE l

(* scanProcesses(): the try block over the directory, then the rollup.     *)
scanProcessesSteps == << "stat", "rollup" >>

(* detectThrashing(): readProcVmstat(), then the shift loop and slot 0; a  *)
(* read that throws ends it before the shift.                              *)
detectThrashingSteps_shiftFirst(threw) == << "shift", "vmstat" >>
detectThrashingSteps(threw) ==
    IF threw THEN << "vmstat" >> ELSE << "vmstat", "shift" >>

(* The scan of a /proc whose stat files parsed as in entries: if an        *)
(* assertion of the token iterator stopped the process, nothing more       *)
(* happens; else the rollup and the writeback follow.                      *)
Scanned(entries) ==
    IF \E k \in 1 .. Len(entries) : entries[k].kind = "abort"
    THEN /\ procs' = procs
         /\ pc' = "aborted"
         /\ steps' = Log(<< >>, << "stat" >>, << >>)
    ELSE LET r == scanProcesses(procs, entries, Me)
         IN  /\ procs' = r.procs
             /\ pc' = IF r.halts THEN "detect" ELSE "hung"
             /\ steps' = IF r.halts
                         THEN Log(Log(<< >>, scanProcessesSteps, << >>),
                                  << "writeback" >>, r.procs)
                         ELSE Log(<< >>, scanProcessesSteps, << >>)

(* ::sleep( 1 ); scanProcesses( "/proc", getpid() );                       *)
(* A filesystem_error during the enumeration ends the process.             *)
ScanProcesses ==
    /\ pc = "scan"
    /\ killed' = 0
    /\ \/ /\ pc' = "exited"
          /\ procs' = procs
          /\ steps' = Log(<< >>, << "stat" >>, << >>)
       \/ Scanned(Others)
       \/ \E samp \in [1 .. Len(procs) -> Samples] : Scanned(Dir(procs, samp))
       \/ \E o \in parseProcStat(CutShort) : Scanned(Others \o << o >>)
    /\ UNCHANGED <<thrashing, hist, recording, picked, locals, files>>

(* The history gains the verdict of a cycle, and keeps WindowSize of them. *)
Record(h, verdict) ==
    << [v |-> verdict, k |-> 0] >>
      \o SubSeq(h, 1, IF Len(h) < WindowSize - 1 THEN Len(h) ELSE WindowSize - 1)

(* detectThrashing(); an exception leaves for the catch (...) of start().  *)
Detected(file) ==
    LET d == detectThrashing(thrashing, file)
    IN  /\ thrashing' = d.thrashing
        /\ steps' = Log(steps, detectThrashingSteps(d.threw), << >>)
        /\ IF d.threw
           THEN /\ pc' = "backoff"
                /\ hist' = hist
           ELSE /\ pc' = "select"
                /\ hist' = IF recording THEN Record(hist, d.verdict) ELSE hist

DetectThrashing ==
    /\ pc = "detect"
    /\ \E file \in VmstatFiles : Detected(file)
    /\ UNCHANGED <<procs, killed, recording, picked, locals, files>>

(* if ( isThrashing() ) { ... ::kill( jesus->pid(), 9 ); thrashing[0] =    *)
(* false; }                                                                *)
SelectAndKill ==
    /\ pc = "select"
    /\ pc' = "scan"
    /\ IF isThrashing(thrashing) /\ jesus(procs) # Null
       THEN /\ killed' = procs[jesus(procs)].pid
            /\ thrashing' = afterKill(thrashing)
            /\ steps' = Log(steps, << "select", "kill" >>, procs)
            /\ hist' = IF recording
                       THEN [hist EXCEPT ![1].k = procs[jesus(procs)].pid]
                       ELSE hist
       ELSE /\ steps' = Log(steps, << "select" >>, procs)
            /\ UNCHANGED <<killed, thrashing, hist>>
    /\ UNCHANGED <<procs, recording, picked, locals, files>>

(* catch (...) { ::sleep( 9 ); }                                           *)
Backoff ==
    /\ pc = "backoff"
    /\ pc' = "scan"
    /\ UNCHANGED <<thrashing, procs, killed, hist, recording, picked, locals,
                   files, steps>>

Next ==
    \/ Start
    \/ Inert
    \/ ScanProcesses
    \/ DetectThrashing
    \/ SelectAndKill
    \/ Backoff

Spec == Init /\ [][Next]_vars

SpecPeers == InitPeers /\ [][Next]_vars

SpecWindow == InitWindow /\ [][Next]_vars

----------------------------------------------------------------------------
(* The policies on their own: every process list of up to MaxProcs         *)
(* processes, each process varying in its memory figures, in its page      *)
(* faults or in its value.                                                 *)

Figures(rss, typical, peak, faults, value) ==
    [rss |-> rss, typical |-> typical, peak |-> peak, faults |-> faults,
     value |-> value]

SomeFigures ==
    {Figures(r, t, p, 0, 0) : r \in 0 .. MaxRss, t \in {0, 1}, p \in {0, 1}}
    \cup {Figures(0, 0, 1, f, 0) : f \in 0 .. MaxFlt}
    \cup {Figures(0, 0, 1, 0, v) : v \in {-1, 0, 1}}

Managed(pid, f) ==
    setPageFaults(setCurrentRss(Process(pid, f.typical, f.peak, f.value), f.rss),
                  f.faults)

ProcessList(n, fs) == [m \in 1 .. n |-> Managed(m + 2, fs[m])]

InitPolicies ==
    /\ pc = "policies"
    /\ files = AllFiles
    /\ steps = << >>
    /\ thrashing = ChoreKeeper(FALSE)
    /\ \E n \in 0 .. MaxProcs :
          \E fs \in [1 .. n -> SomeFigures] : procs = ProcessList(n, fs)
    /\ killed = 0
    /\ hist = << >>
    /\ recording = FALSE
    /\ picked = NoPick
    /\ NoLocals

Policies ==
    /\ pc = "policies"
    /\ pc' = "picked"
    /\ picked' = [furthestOverPeak |-> furthestOverPeak(procs),
                  furthestOverExpected |-> furthestOverExpected(procs),
                  thrashingMost |-> thrashingMost(procs),
                  leastValuable |-> leastValuable(procs),
                  biggest |-> biggest(procs)]
    /\ UNCHANGED <<thrashing, procs, killed, hist, recording, locals, files,
                   steps>>

SpecPolicies == InitPolicies /\ [][Policies]_vars


----------------------------------------------------------------------------
(* The thrashing window: cool-down, warm-up and contents (SpecWindow).     *)

(* hist[n] is the verdict stored n - 1 stored verdicts ago; a cycle whose  *)
(* vmstat read throws stores none and leaves the window alone.             *)
KilledAt(n) == n \in 1 .. Len(hist) /\ hist[n].k # 0

\* C1: once a kill has been issued, isThrashing() is false for as long as
\* the kill lies within the last WindowSize stored verdicts, that is in each
\* of the 7 cycles that follow the kill's cycle whatever their verdicts;
\* and so no two kills lie within WindowSize consecutive verdicts.
C1_CoolDown ==
    /\ (\E n \in 1 .. WindowSize : KilledAt(n)) => ~isThrashing(thrashing)
    /\ \A n, j \in 1 .. WindowSize : (KilledAt(n) /\ KilledAt(j)) => n = j

(* The 7th cycle after a kill, its verdict stored, all 7 verdicts since the *)
(* kill true.                                                              *)
C1_Witness ==
    /\ pc = "select"
    /\ KilledAt(WindowSize)
    /\ \A n \in 1 .. WindowSize - 1 : hist[n].v

\* C2: no kill is issued until 8 consecutive cycles have each produced a
\* true verdict, and isThrashing() is false in each of the first 7 cycles
\* after start.
C2_EightVerdicts ==
    /\ killed # 0 => (Len(hist) = WindowSize /\ \A n \in 1 .. WindowSize : hist[n].v)
    /\ (pc = "select" /\ Len(hist) < WindowSize) => ~isThrashing(thrashing)

\* C3 (as stated): at the end of every cycle, thrashing[n] is the verdict of
\* the cycle n cycles earlier, thrashing[0] that of the current cycle.
C3_VerdictsOnly ==
    (pc = "scan" /\ hist # << >>) =>
        \A n \in 1 .. Len(hist) : thrashing[n - 1] = hist[n].v

\* C3 (amended): thrashing[n] is the n-th most recent stored verdict, for
\* as many verdicts as have been stored, except that the slot of a cycle
\* in which a kill was issued holds false.
C3_VerdictsUnlessKilled ==
    \A n \in 1 .. Len(hist) : thrashing[n - 1] = (hist[n].v /\ hist[n].k = 0)

(* The end of the cycle after a kill: the forced false has moved to slot 1, *)
(* under a true verdict in slot 0.                                         *)
C3_Witness ==
    /\ pc = "scan"
    /\ Len(hist) = WindowSize
    /\ KilledAt(2)
    /\ hist[1].v

----------------------------------------------------------------------------
(* The kill (Spec).                                                        *)

Pids(pl) == {pl[m].pid : m \in 1 .. Len(pl)}

\* C4: a SIGKILL is sent only by the select step of a cycle whose window,
\* shifted and with the fresh verdict in, has all 8 slots true; its target
\* is the pid of a process in the registry; right after it thrashing[0] is
\* false; and no further signal follows in the same cycle.
C4_KillOnlyWhenThrashing ==
    [][ /\ (killed' # 0 /\ killed' # killed) =>
            /\ pc = "select"
            /\ \A n \in Slots : thrashing[n]
            /\ killed' \in Pids(procs)
            /\ ~thrashing'[0]
        /\ (killed # 0 /\ killed' # killed) => (killed' = 0 /\ pc = "scan") ]_vars

(* A kill has just been sent.                                              *)
C4_Witness ==
    /\ pc = "scan"
    /\ killed # 0
    /\ ~thrashing[0]
    /\ \A n \in Slots \ {0} : thrashing[n]


----------------------------------------------------------------------------
(* The choice of the victim.                                               *)

(* The process that was sent the signal; start() leaves the process list   *)
(* alone between the choice and the end of the cycle.                      *)
Victim == CHOOSE m \in 1 .. Len(procs) : procs[m].pid = killed

InOrder ==
    << furthestOverPeak(procs), furthestOverExpected(procs), thrashingMost(procs),
       leastValuable(procs), biggest(procs) >>

\* C5: the victim is the result of the first policy that returns a process,
\* in the order furthestOverPeak, furthestOverExpected, thrashingMost,
\* leastValuable, biggest.
C5_FirstPolicyWins ==
    killed # 0 =>
        \E i \in 1 .. 5 :
            /\ InOrder[i] # Null
            /\ \A j \in 1 .. (i - 1) : InOrder[j] = Null
            /\ killed = procs[InOrder[i]].pid

(* thrashingMost() decided, though leastValuable() had another candidate.  *)
C5_Witness ==
    /\ killed # 0
    /\ InOrder[1] = Null
    /\ InOrder[2] = Null
    /\ InOrder[3] # Null
    /\ InOrder[4] # Null
    /\ InOrder[4] # InOrder[3]
    /\ killed = procs[InOrder[3]].pid

IsOver(p, limit) == p.currentRss > limit

\* C6: furthestOverPeak() returns null iff no process has currentRss >
\* expectedPeakMemory; the process it returns is over its peak, and by no
\* less than any other process.
C6_FurthestOverPeak ==
    pc = "picked" =>
        LET p == picked.furthestOverPeak
        IN  /\ (p = Null) <=>
                  (\A m \in 1 .. Len(procs) :
                      ~IsOver(procs[m], procs[m].expectedPeakMemory))
            /\ p # Null =>
                  /\ procs[p].currentRss - procs[p].expectedPeakMemory > 0
                  /\ \A m \in 1 .. Len(procs) :
                        procs[m].currentRss - procs[m].expectedPeakMemory
                          <= procs[p].currentRss - procs[p].expectedPeakMemory

(* Three processes over their peak, the second by most.                    *)
C6_Witness ==
    /\ pc = "picked"
    /\ Len(procs) = 3
    /\ picked.furthestOverPeak = 2
    /\ IsOver(procs[1], procs[1].expectedPeakMemory)
    /\ IsOver(procs[3], procs[3].expectedPeakMemory)
    /\ procs[1].expectedPeakMemory # procs[2].expectedPeakMemory

MaxFaults == CHOOSE f \in {procs[m].pageFaults : m \in 1 .. Len(procs)} :
                \A m \in 1 .. Len(procs) : procs[m].pageFaults <= f
MinFaults == CHOOSE f \in {procs[m].pageFaults : m \in 1 .. Len(procs)} :
                \A m \in 1 .. Len(procs) : procs[m].pageFaults >= f

\* C7: with at least one process, thrashingMost() returns a process whose
\* recentPageFaults is the maximum when the maximum exceeds the minimum,
\* and null when they are equal.
C7_ThrashingMost ==
    (pc = "picked" /\ Len(procs) > 0) =>
        LET p == picked.thrashingMost
        IN  IF MaxFaults > MinFaults
            THEN p # Null /\ procs[p].pageFaults = MaxFaults
            ELSE p = Null

MaxValue == CHOOSE v \in {procs[m].value : m \in 1 .. Len(procs)} :
                \A m \in 1 .. Len(procs) : procs[m].value <= v
MinValue == CHOOSE v \in {procs[m].value : m \in 1 .. Len(procs)} :
                \A m \in 1 .. Len(procs) : procs[m].value >= v

\* C8: leastValuable() returns null iff all processes have the same value
\* (none at all included); otherwise a process of the least value.
C8_LeastValuable ==
    pc = "picked" =>
        LET p == picked.leastValuable
        IN  /\ (p = Null) <=>
                  (\A m, n \in 1 .. Len(procs) : procs[m].value = procs[n].value)
            /\ p # Null => procs[p].value = MinValue

(* Three processes, the least valuable neither first nor last.             *)
C8_Witness ==
    /\ pc = "picked"
    /\ Len(procs) = 3
    /\ picked.leastValuable = 2
    /\ procs[1].value # procs[3].value

\* C9: biggest() returns a process of the largest currentRss, and null only
\* for an empty list; so a cycle that finds sustained thrashing and a
\* process to manage sends a kill, to the process of the largest rss when
\* the four other policies return nothing.
C9_BiggestAlwaysKills ==
    /\ (biggest(procs) = Null) <=> (Len(procs) = 0)
    /\ biggest(procs) # Null =>
          \A m \in 1 .. Len(procs) :
              procs[m].currentRss <= procs[biggest(procs)].currentRss
    /\ (pc # "select" /\ isThrashing(thrashing)) => Len(procs) = 0
    /\ (killed # 0 /\ \A i \in 1 .. 4 : InOrder[i] = Null) =>
          \A m \in 1 .. Len(procs) : procs[m].currentRss <= procs[Victim].currentRss

(* The second of two processes killed for being the biggest.               *)
C9_Witness ==
    /\ killed # 0
    /\ \A i \in 1 .. 4 : InOrder[i] = Null
    /\ Victim = 2
    /\ procs[1].currentRss < procs[2].currentRss

\* C10: furthestOverExpected() returns null iff no process has currentRss >
\* expectedTypicalMemory; and when a kill is due, no process is over its
\* peak and some process is over its typical size, the victim is over its
\* typical size, and by no less than any other process.
C10_FurthestOverExpected ==
    /\ (furthestOverExpected(procs) = Null) <=>
          (\A m \in 1 .. Len(procs) :
              ~IsOver(procs[m], procs[m].expectedTypicalMemory))
    /\ ( /\ killed # 0
         /\ \A m \in 1 .. Len(procs) : ~IsOver(procs[m], procs[m].expectedPeakMemory)
         /\ \E m \in 1 .. Len(procs) : IsOver(procs[m], procs[m].expectedTypicalMemory) )
       => /\ procs[Victim].currentRss - procs[Victim].expectedTypicalMemory > 0
          /\ \A m \in 1 .. Len(procs) :
                procs[m].currentRss - procs[m].expectedTypicalMemory
                  <= procs[Victim].currentRss - procs[Victim].expectedTypicalMemory

(* Both processes over their typical size, neither over its peak, the      *)
(* victim over by more.                                                    *)
C10_Witness ==
    /\ killed # 0
    /\ \A m \in 1 .. Len(procs) :
          /\ ~IsOver(procs[m], procs[m].expectedPeakMemory)
          /\ IsOver(procs[m], procs[m].expectedTypicalMemory)
    /\ \E m \in 1 .. Len(procs) :
          procs[m].currentRss - procs[m].expectedTypicalMemory
            < procs[Victim].currentRss - procs[Victim].expectedTypicalMemory



----------------------------------------------------------------------------
(* scanProcesses() on its own: one scan of a /proc that holds up to three  *)
(* processes, pids 3, 4 and 5, of which 3 and 4 are managed.  Each is      *)
(* gone, or has a stat record that names as its parent nobody, nodee, or   *)
(* one of the three (itself included); the scan may also have met a stat   *)
(* file whose tokens ran out, or one with a field that is no integer.      *)

ScanPids == {3, 4, 5}
Parents == {0, Me} \cup ScanPids

StatChoices(p) ==
    { << >> } \cup
    { << Ok(RunningProcess(p, pp, r % 2, r)) >> :
          pp \in Parents, r \in 1 .. MaxRss }

Extras == { << >>, << Short >>, << Bad >> }

ScanRegistry == << Process(3, 0, 2, 2), Process(4, 0, 1, 1) >>

InitScan ==
    /\ pc = "scanning"
    /\ files = AllFiles
    /\ steps = << >>
    /\ thrashing = ChoreKeeper(FALSE)
    /\ procs = ScanRegistry
    /\ killed = 0
    /\ hist = << >>
    /\ recording = FALSE
    /\ picked = NoPick
    /\ \E x \in Extras, a \in StatChoices(3), b \in StatChoices(4),
          c \in StatChoices(5) : dir = x \o a \o b \o c
    /\ view = << >>
    /\ sample = << >>
    /\ line = << >>
    /\ parsed = << >>

(* scanProcesses( "/proc", getpid() ), keeping the map it built. A scan    *)
(* whose ppid walk is caught in a cycle does not return.                   *)
Scan ==
    /\ pc = "scanning"
    /\ LET r == scanProcesses(procs, dir, Me)
       IN  /\ pc' = IF r.halts THEN "scanned" ELSE "hung"
           /\ procs' = r.procs
           /\ view' = r.obs
    /\ UNCHANGED <<thrashing, killed, hist, recording, picked, dir, sample,
                   line, parsed, files, steps>>

SpecScan == InitScan /\ [][Scan]_vars

----------------------------------------------------------------------------
(* The rollup and the writeback (SpecScan).                                *)

(* The samples of the scan: the records parseProcStat() filled in.         *)
Sampled == {dir[k].r : k \in {j \in 1 .. Len(dir) : dir[j].kind = "ok"}}
SampledPids == {r.pid : r \in Sampled}
SampleAt(p) == CHOOSE r \in Sampled : r.pid = p
PpidOf(p) == IF p \in SampledPids THEN SampleAt(p).ppid ELSE 0
OwnRss(p) == IF p \in SampledPids THEN SampleAt(p).rss ELSE 0
OwnMajflt(p) == IF p \in SampledPids THEN SampleAt(p).majflt ELSE 0

(* Where the ppid walk from p halts: at the first pid whose parent is      *)
(* nobody or nodee; NoRoot when the walk is caught in a cycle.             *)
NoRoot == -1
RECURSIVE RootOf(_, _)
RootOf(p, fuel) ==
    IF PpidOf(p) \in {0, Me} THEN p
    ELSE IF fuel = 0 THEN NoRoot
    ELSE RootOf(PpidOf(p), fuel - 1)
Root(p) == RootOf(p, Cardinality(SampledPids))
Acyclic == \A p \in SampledPids : Root(p) # NoRoot

RECURSIVE SumRss(_)
SumRss(S) ==
    IF S = {} THEN 0
    ELSE LET p == CHOOSE x \in S : TRUE IN OwnRss(p) + SumRss(S \ {p})
RECURSIVE SumMajflt(_)
SumMajflt(S) ==
    IF S = {} THEN 0
    ELSE LET p == CHOOSE x \in S : TRUE IN OwnMajflt(p) + SumMajflt(S \ {p})

(* The sampled processes, k itself apart, whose walk halts at k.           *)
RolledInto(k) == {p \in SampledPids \ {k} : Root(p) = k}

\* C11: after scanProcesses() on an acyclic view, each managed process's
\* currentRss and page-fault count are its own sampled rss and majflt plus
\* those of every sampled process whose ppid walk halts at it; and every
\* entry of the view holds its own sample plus exactly the samples rooted at
\* it, so that no sample is added twice or to a pid that is not its root.
C11_Rollup ==
    (pc = "scanned" /\ Acyclic) =>
        /\ \A m \in 1 .. Len(procs) :
              /\ procs[m].currentRss =
                    OwnRss(procs[m].pid) + SumRss(RolledInto(procs[m].pid))
              /\ procs[m].pageFaults =
                    OwnMajflt(procs[m].pid) + SumMajflt(RolledInto(procs[m].pid))
        /\ \A k \in DOMAIN view :
              /\ view[k].rss = OwnRss(k) + SumRss(RolledInto(k))
              /\ view[k].majflt = OwnMajflt(k) + SumMajflt(RolledInto(k))

(* Pid 3 is nodee's child, 4 is 3's child and 5 is 4's: 3 is charged with  *)
(* all three and 4 with itself alone.                                      *)
C11_Witness ==
    /\ pc = "scanned"
    /\ {3, 4, 5} \subseteq SampledPids
    /\ PpidOf(3) = Me /\ PpidOf(4) = 3 /\ PpidOf(5) = 4
    /\ procs[1].currentRss = OwnRss(3) + OwnRss(4) + OwnRss(5)
    /\ procs[2].currentRss = OwnRss(4)
    /\ OwnRss(5) = MaxRss

\* C12: after the writeback, a managed process whose pid has no parsed sample
\* in this scan has currentRss = 0 and pageFaults = 0, also when sampled
\* processes name that pid as their ppid.
C12_AbsentIsZero ==
    pc = "scanned" =>
        \A m \in 1 .. Len(procs) :
            procs[m].pid \notin SampledPids =>
                procs[m].currentRss = 0 /\ procs[m].pageFaults = 0

----------------------------------------------------------------------------
(* parseProcStat() on its own, with what the scan then does with the      *)
(* record (SpecParse).                                                     *)

InitParse ==
    /\ pc = "parsing"
    /\ files = AllFiles
    /\ steps = << >>
    /\ thrashing = ChoreKeeper(FALSE)
    /\ procs = << >>
    /\ killed = 0
    /\ hist = << >>
    /\ recording = FALSE
    /\ picked = NoPick
    /\ dir = << >>
    /\ view = << >>
    /\ sample = << >>
    /\ line \in StatLines
    /\ parsed = << >>

(* try { RunningProcess r( parseProcStat( line ) ); observed[r.pid] = r; } *)
(* catch ( boost::bad_lexical_cast ) { }                                   *)
ParseProcStat ==
    /\ pc = "parsing"
    /\ \E o \in parseProcStat(line) :
          /\ parsed' = o
          /\ pc' = IF o.kind = "abort" THEN "aborted" ELSE "parsed"
          /\ view' = IF o.kind = "abort" THEN view
                     ELSE observe(<< o >>, 1, EmptyMap)
    /\ UNCHANGED <<thrashing, procs, killed, hist, recording, picked, dir,
                   sample, line, files, steps>>

SpecParse == InitParse /\ [][ParseProcStat]_vars

\* C19: the ancestry rollup of scanProcesses() comes to an end on every
\* view, those whose ppid links form a cycle included (a process that is
\* its own parent, two processes that name each other): the scan never
\* stays in a ppid walk for ever.
C19_RollupTerminates == pc # "hung"

----------------------------------------------------------------------------
(* The parser and the insertion into the view (SpecParse).                 *)

\* C13: a stat record whose parse failed, because the tokens ran out before
\* a required field or because a required field is no integer, is not
\* inserted into the view: after the scan of that record the view has no
\* entry, under key 0 or any other.
C13_FailedParseAbsent ==
    (pc = "parsed" /\ parsed.kind \in {"short", "bad"}) => view = EmptyMap

(* The fields of a record as the kernel would print them.                  *)
IsNumeral(v, x) == v >= 0 /\ Num(v) = x

\* C17: for every pid, ppid, majflt, cmajflt and rss that are non-negative
\* integers and every name of letters, spaces and backslash-escaped right
\* parentheses, parseProcStat() of the stat line made of them returns a
\* record with that pid, that ppid, majflt + cmajflt and that rss.
C17_RoundTrip ==
    pc # "parsing" =>
        \A t \in Tuples :
            line = StatLine(t) =>
                /\ parsed.kind = "ok"
                /\ IsNumeral(parsed.r.pid, t.pid)
                /\ IsNumeral(parsed.r.ppid, t.ppid)
                /\ IsNumeral(parsed.r.majflt, Plus(t.majflt, t.cmajflt))
                /\ IsNumeral(parsed.r.rss, t.rss)

\* C18: the stat line 12 (foo ) bar) S 7 ..., whose name holds a space and
\* then a right parenthesis ahead of the closing one, is parsed to a record
\* with pid 12 and ppid 7.
C18_EmbeddedParen ==
    (pc # "parsing" /\ line = EmbeddedParen) =>
        /\ parsed.kind = "ok"
        /\ parsed.r.pid = 12
        /\ parsed.r.ppid = 7

----------------------------------------------------------------------------
(* Faults in the loop of start() (Spec).                                   *)

\* C14: no fault raised inside a cycle body ends the agent: at every moment
\* start() is at a step of a cycle, is backing off after an exception it
\* swallowed, or sleeps inert, unless the enumeration of the process
\* directory failed and the agent exited.
C14_FaultIsolation ==
    pc \in {"start", "inert", "scan", "detect", "select", "backoff", "exited"}

(* valid() is false: one of the two files start() probes for is missing.   *)
Degraded == ~files.stat1 \/ ~files.vmstat

\* C15: if /proc/1/stat or /proc/vmstat does not exist when start() is
\* called, then from then on no step sends a kill signal, none changes a
\* managed process (no setCurrentRss, no setPageFaults), none touches the
\* window, and start() stays in its inert sleep: it does not return.
C15_DegradedMode ==
    [][Degraded =>
          /\ pc' = "inert"
          /\ killed' = 0
          /\ procs' = procs
          /\ thrashing' = thrashing]_vars

(* /proc/vmstat alone is missing, two processes are managed, and start()   *)
(* sleeps.                                                                 *)
C15_Witness ==
    /\ files.stat1 /\ ~files.vmstat
    /\ pc = "inert"
    /\ Len(procs) = 2
    /\ killed = 0

----------------------------------------------------------------------------
(* detectThrashing() on its own, followed by the selection: one cycle's    *)
(* /proc/vmstat with each of the three counters missing or at a value      *)
(* about its limit, read when the seven older slots of the window are all  *)
(* true (so that a true verdict kills) or all false.                       *)

Absent == -1
CounterLine(n, v) == IF v = Absent THEN << >> ELSE << Line(n, v) >>

Vmstat(free, majfault, pgout) ==
    << Line("pgfree", 7) >> \o CounterLine("nr_free_pages", free)
        \o CounterLine("pgmajfault", majfault) \o CounterLine("pgpgout", pgout)

FreePages ==
    {Absent, 0, FreePagesLimit, FreePagesLimit + 1, FreePagesLimit + 1000}
MajFaults == {Absent, 0, MajFaultLimit, MajFaultLimit + 1}
PgOuts == {Absent, 0, PgOutLimit - 1, PgOutLimit}

InitVerdict ==
    /\ pc = "detect"
    /\ files = AllFiles
    /\ steps = << >>
    /\ \E older \in BOOLEAN : thrashing = [n \in Slots |-> older]
    /\ procs = ScanRegistry
    /\ killed = 0
    /\ hist = << >>
    /\ recording = TRUE
    /\ picked = NoPick
    /\ dir = << >>
    /\ view = << >>
    /\ \E free \in FreePages, majfault \in MajFaults, pgout \in PgOuts :
          sample = Vmstat(free, majfault, pgout)
    /\ line = << >>
    /\ parsed = << >>

(* detectThrashing() reading the /proc/vmstat of this run.                 *)
DetectSample ==
    /\ pc = "detect"
    /\ Detected(sample)
    /\ UNCHANGED <<procs, killed, recording, picked, locals, files>>

SpecVerdict == InitVerdict /\ [][DetectSample \/ SelectAndKill]_vars

(* The value of a counter in the file read: that of its line, 0 if it has  *)
(* no line.                                                                *)
HasCounter(n) == \E k \in 1 .. Len(sample) : sample[k].n = n
Counter(n) ==
    IF HasCounter(n)
    THEN sample[CHOOSE k \in 1 .. Len(sample) : sample[k].n = n].v
    ELSE 0

\* C16: the verdict detectThrashing() stores is false if nr_free_pages >
\* 5000, else true if pgmajfault > 3, else false if pgpgout < 3, else true,
\* a counter without a line counting as 0; and a cycle whose nr_free_pages
\* is above 5000, or whose file has none of the three counters, stores a
\* false verdict and kills nothing.
C16_Verdict ==
    pc \in {"select", "scan"} =>
        /\ thrashing[0] = hist[1].v \/ hist[1].k # 0
        /\ hist[1].v =
              (IF Counter("nr_free_pages") > 5000 THEN FALSE
               ELSE IF Counter("pgmajfault") > 3 THEN TRUE
               ELSE IF Counter("pgpgout") < 3 THEN FALSE
               ELSE TRUE)
        /\ (\/ Counter("nr_free_pages") > 5000
            \/ ~(HasCounter("nr_free_pages") \/ HasCounter("pgmajfault")
                   \/ HasCounter("pgpgout")))
              => (~hist[1].v /\ ~thrashing[0] /\ killed = 0 /\ hist[1].k = 0)

(* Free pages above the limit with page-ins and page-outs above theirs,    *)
(* read when the seven older verdicts were all true: a false verdict, and  *)
(* the cycle has ended without a kill.                                     *)
C16_Witness ==
    /\ pc = "scan"
    /\ Counter("nr_free_pages") = FreePagesLimit + 1
    /\ Counter("pgmajfault") = MajFaultLimit + 1
    /\ Counter("pgpgout") = PgOutLimit
    /\ thrashing[1]
    /\ ~thrashing[0]
    /\ ~hist[1].v
    /\ killed = 0

----------------------------------------------------------------------------
(* A failed read of /proc/vmstat (SpecWindow).                             *)

\* C20: when the vmstat read of a cycle throws on a value that is no
\* integer, the window is left as the previous cycle left it (the scan does
\* not touch it, the failed read neither shifts nor resets it, nor does the
\* back-off), the managed processes keep the figures the scan of this cycle
\* wrote, no kill is issued, and after the back-off the next cycle starts.
C20_FailedRead ==
    [][/\ pc = "scan" => thrashing' = thrashing
       /\ (pc = "detect" /\ pc' = "backoff") =>
             /\ thrashing' = thrashing
             /\ procs' = procs
             /\ killed = 0 /\ killed' = 0
       /\ pc = "backoff" =>
             /\ pc' = "scan"
             /\ thrashing' = thrashing
             /\ procs' = procs
             /\ killed' = 0]_vars

(* The read has thrown in a cycle that follows a true verdict and whose    *)
(* scan has written an rss for the managed process.                        *)
C20_Witness ==
    /\ pc = "backoff"
    /\ Len(hist) >= 1 /\ hist[1].v
    /\ thrashing[0]
    /\ Len(procs) = 1
    /\ procs[1].currentRss = MaxRss
    /\ killed = 0

----------------------------------------------------------------------------
(* The order of the steps within a cycle (SpecWindow).                     *)

StepNames == [k \in 1 .. Len(steps) |-> steps[k].step]
IsPrefix(a, b) == Len(a) <= Len(b) /\ a = SubSeq(b, 1, Len(a))

(* The place the claim gives a step: the sampling of the stat records and  *)
(* of the vmstat counters first, then the aggregation, the writeback, the  *)
(* window, the selection and the kill.                                     *)
ClaimedRank(name) ==
    CASE name \in {"stat", "vmstat"} -> 1
      [] name = "rollup" -> 2
      [] name = "writeback" -> 3
      [] name = "shift" -> 4
      [] name = "select" -> 5
      [] name = "kill" -> 6

(* The selection and the kill read the figures the writeback of the same   *)
(* cycle wrote.                                                            *)
ReadsWhatWasWritten ==
    \A k \in 1 .. Len(steps) :
        steps[k].step \in {"select", "kill"} =>
            /\ Len(steps) >= 3
            /\ steps[3].step = "writeback"
            /\ steps[k].procs = steps[3].procs

====
